---- MODULE Spec2Model ----
(***************************************************************************)
(* Model of the turn-based fighting game in src/gitattributes.py (class   *)
(* Game).  The state is the Game object's fields plus the locals of       *)
(* play(); one action per step of play(): the character prompt, the       *)
(* reset, the loop test, one take_turn (with its apply_move) and the      *)
(* reduce_cooldowns that ends every loop iteration.                       *)
(*                                                                         *)
(* Characters are named by their (1-based) position in the character      *)
(* list, moves by their (1-based) position in the owner's move list, so   *)
(* Python's 0-based choice c is index c + 1 here.                         *)
(***************************************************************************)
EXTENDS Integers, Sequences, FiniteSets, TLC

(* ---------------------------- bounds ----------------------------------- *)
\* the turn index nturns stops counting here (the game itself goes on)
MaxTurns == 6
\* numbers a human may type at a prompt: 0 .. MaxInput
MaxInput == 6

(* ------------------------- static data --------------------------------- *)
NoChar == 0
NoMove == 0
Never == -1

BLOCKS == "blocks next attack"
DODGE == "dodge next attack"
NoEffect == "none"

\* One move of the character file.  hasCooldown = FALSE is a move without a
\* "cooldown" key, effect = NoEffect a move without an "effect" key.
Mv(n, d, hc, c, e) ==
  [name |-> n, damage |-> d, hasCooldown |-> hc, cooldown |-> c, effect |-> e]

\* The character list json.load() returns: a fixed sample of the data file.
characters ==
  << [name |-> "Brawler", health |-> 3, defense |-> 1,
      player_moves |-> << Mv("Punch", 2, FALSE, 0, NoEffect),
                          Mv("Haymaker", 3, TRUE, 3, "stun") >>],
     [name |-> "Archer", health |-> 4, defense |-> 0,
      player_moves |-> << Mv("Shot", 2, TRUE, 0, NoEffect),
                          Mv("Volley", 3, TRUE, 4, NoEffect) >>],
     [name |-> "Knight", health |-> 4, defense |-> 3,
      player_moves |-> << Mv("Slash", 3, TRUE, 0, NoEffect),
                          Mv("Shield", 5, TRUE, 2, BLOCKS) >>],
     [name |-> "Ninja", health |-> 3, defense |-> 1,
      player_moves |-> << Mv("Strike", 4, TRUE, 1, NoEffect),
                          Mv("Vanish", 0, TRUE, 3, DODGE) >>],
     [name |-> "Dummy", health |-> 0, defense |-> 0,
      player_moves |-> << Mv("Flail", 1, TRUE, 0, NoEffect) >>] >>

NumChars == Len(characters)
Chars == 1..NumChars
Moves(c) == 1..Len(characters[c].player_moves)
MoveOf(c, k) == characters[c].player_moves[k]

\* move.get("cooldown", 0)
MoveCooldown(move) == IF move.hasCooldown THEN move.cooldown ELSE 0

MaxOf(S) == CHOOSE x \in S : \A y \in S : y <= x
\* the ghost counter 'since' stops one past the longest configured cooldown
SinceCap ==
  MaxOf(UNION {{MoveCooldown(MoveOf(c, k)) : k \in Moves(c)} : c \in Chars}) + 1

VARIABLES
  pc,               \* position in play(): "choose","reset","loop","turn","reduce","done"
  player, cpu,      \* self.player, self.cpu (NoChar = None)
  health,           \* char["health"] of every character of the list
  cooldowns,        \* self.cooldowns: name -> move -> remaining turns
  active_defenses,  \* self.active_defenses: name -> bool
  turn,             \* local 'turn' of play(): 0 = player, 1 = CPU
  attacker, defender, move_idx,  \* arguments of the latest apply_move call
  damage,           \* local 'damage' of the latest plain attack
  outcome,          \* the latest outcome line printed
  verdict,          \* the final line printed: "lost" / "won"
  nturns,           \* history: index of the current turn (stops at MaxTurns)
  since             \* history: turns since a move was last executed (Never = not yet)

vars == << pc, player, cpu, health, cooldowns, active_defenses, turn,
           attacker, defender, move_idx, damage, outcome, verdict, nturns, since >>

battle == << health, cooldowns, active_defenses >>
args == << attacker, defender, move_idx >>

EmptyMap == [c \in {} |-> 0]

Init ==
  /\ pc = "choose"
  /\ player = NoChar /\ cpu = NoChar
  /\ health = [c \in Chars |-> characters[c].health]
  /\ cooldowns = EmptyMap
  /\ active_defenses = EmptyMap
  /\ turn = 0
  /\ attacker = NoChar /\ defender = NoChar /\ move_idx = NoMove
  /\ damage = 0
  /\ outcome = "none"
  /\ verdict = "none"
  /\ nturns = 0
  /\ since = EmptyMap

(* ------------------------ choose_character ------------------------------ *)
\* variant: the typed number, not the index, is tested against 0
ValidChoice_loose(n) == 0 <= n /\ n - 1 < NumChars

\* 0 <= choice < len(self.characters), choice = int(input) - 1
ValidChoice(n) == 0 <= n - 1 /\ n - 1 < NumChars

choose_character_out_of_range(n) ==
  /\ pc = "choose"
  /\ ~ValidChoice(n)
  /\ outcome' = "invalid choice"
  /\ UNCHANGED << pc, player, cpu, battle, turn, args, damage, verdict, nturns, since >>

choose_character_not_a_number ==
  /\ pc = "choose"
  /\ outcome' = "invalid input"
  /\ UNCHANGED << pc, player, cpu, battle, turn, args, damage, verdict, nturns, since >>

\* variant: the player's own character is not filtered out
CpuCandidates_all(choice) == Chars

\* [char for idx, char in enumerate(self.characters) if idx != choice]
CpuCandidates(choice) == {c \in Chars : c # choice}

choose_character(n, r) ==
  /\ pc = "choose"
  /\ ValidChoice(n)
  /\ r \in CpuCandidates(n)
  /\ player' = n
  /\ cpu' = r
  /\ pc' = "reset"
  /\ UNCHANGED << battle, turn, args, damage, outcome, verdict, nturns, since >>

(* ------------------------- reset_cooldowns ------------------------------ *)
reset_cooldowns ==
  /\ pc = "reset"
  /\ cooldowns' = [c \in {player, cpu} |-> [k \in Moves(c) |-> 0]]
  /\ active_defenses' = [c \in {player, cpu} |-> FALSE]
  /\ since' = [c \in {player, cpu} |-> [k \in Moves(c) |-> Never]]
  /\ turn' = 0
  /\ nturns' = 0
  /\ pc' = "loop"
  /\ UNCHANGED << player, cpu, health, args, damage, outcome, verdict >>

(* ---------------------------- apply_move -------------------------------- *)
Max(a, b) == IF a > b THEN a ELSE b

\* variant: the test is off by one (> 1)
OnCooldown_late(a, k) == cooldowns[a][k] > 1

\* self.cooldowns[attacker["name"]][move_name] > 0
OnCooldown(a, k) == cooldowns[a][k] > 0

\* move.get("effect") in ["blocks next attack", "dodge next attack"]
IsDefenseMove(move) == move.effect \in {BLOCKS, DODGE}

\* variant: the difference is not clamped at 0
DamageDealt_unclamped(move, d) == move.damage - characters[d].defense

\* damage = max(move["damage"] - defender["defense"], 0)
DamageDealt(move, d) == Max(move.damage - characters[d].defense, 0)

\* variant: a nullified attack leaves the defender's flag set
ClearDefense_kept(d) == active_defenses

\* self.active_defenses[defender["name"]] = False
ClearDefense(d) == [active_defenses EXCEPT ![d] = FALSE]

\* self.active_defenses[attacker["name"]] = True
RaiseDefense(a) == [active_defenses EXCEPT ![a] = TRUE]

\* variant: the executed move's cooldown is not started
StartCooldown_skipped(a, k) == cooldowns

\* variant: the cooldown is started on every move of the attacker
StartCooldown_all(a, k) ==
  [cooldowns EXCEPT ![a] = [j \in DOMAIN cooldowns[a] |-> MoveCooldown(MoveOf(a, k))]]

\* self.cooldowns[attacker["name"]][move_name] = move.get("cooldown", 0)
StartCooldown(a, k) == [cooldowns EXCEPT ![a][k] = MoveCooldown(MoveOf(a, k))]

Executed(a, k) == [since EXCEPT ![a][k] = 0]

\* variant: the move's effect is tested before the defender's flag
apply_move_effect_first(a, d, k) ==
  /\ attacker' = a /\ defender' = d /\ move_idx' = k
  /\ IF OnCooldown(a, k) THEN
       /\ outcome' = "cooldown"
       /\ UNCHANGED << battle, damage, since >>
     ELSE IF IsDefenseMove(MoveOf(a, k)) THEN
       /\ outcome' = "defense"
       /\ active_defenses' = RaiseDefense(a)
       /\ cooldowns' = StartCooldown(a, k)
       /\ since' = Executed(a, k)
       /\ UNCHANGED << health, damage >>
     ELSE IF active_defenses[d] THEN
       /\ outcome' = "nullified"
       /\ active_defenses' = ClearDefense(d)
       /\ cooldowns' = StartCooldown(a, k)
       /\ since' = Executed(a, k)
       /\ UNCHANGED << health, damage >>
     ELSE
       /\ outcome' = "damage"
       /\ damage' = DamageDealt(MoveOf(a, k), d)
       /\ health' = [health EXCEPT ![d] = @ - DamageDealt(MoveOf(a, k), d)]
       /\ cooldowns' = StartCooldown(a, k)
       /\ since' = Executed(a, k)
       /\ UNCHANGED active_defenses

apply_move(a, d, k) ==
  /\ attacker' = a /\ defender' = d /\ move_idx' = k
  /\ IF OnCooldown(a, k) THEN
       /\ outcome' = "cooldown"
       /\ UNCHANGED << battle, damage, since >>
     ELSE IF active_defenses[d] THEN
       /\ outcome' = "nullified"
       /\ active_defenses' = ClearDefense(d)
       /\ cooldowns' = StartCooldown(a, k)
       /\ since' = Executed(a, k)
       /\ UNCHANGED << health, damage >>
     ELSE IF IsDefenseMove(MoveOf(a, k)) THEN
       /\ outcome' = "defense"
       /\ active_defenses' = RaiseDefense(a)
       /\ cooldowns' = StartCooldown(a, k)
       /\ since' = Executed(a, k)
       /\ UNCHANGED << health, damage >>
     ELSE
       /\ outcome' = "damage"
       /\ damage' = DamageDealt(MoveOf(a, k), d)
       /\ health' = [health EXCEPT ![d] = @ - DamageDealt(MoveOf(a, k), d)]
       /\ cooldowns' = StartCooldown(a, k)
       /\ since' = Executed(a, k)
       /\ UNCHANGED active_defenses

(* ----------------------------- take_turn -------------------------------- *)
\* 0 <= move_idx < len(attacker["player_moves"]), move_idx = int(input) - 1
ValidMove(c, n) == 0 <= n - 1 /\ n - 1 < Len(characters[c].player_moves)

take_turn_out_of_range(n) ==
  /\ pc = "turn" /\ turn = 0
  /\ ~ValidMove(player, n)
  /\ outcome' = "invalid move"
  /\ UNCHANGED << pc, player, cpu, battle, turn, args, damage, verdict, nturns, since >>

take_turn_not_a_number ==
  /\ pc = "turn" /\ turn = 0
  /\ outcome' = "invalid input"
  /\ UNCHANGED << pc, player, cpu, battle, turn, args, damage, verdict, nturns, since >>

take_turn_player(n) ==
  /\ pc = "turn" /\ turn = 0
  /\ ValidMove(player, n)
  /\ apply_move(player, cpu, n)
  /\ pc' = "reduce"
  /\ UNCHANGED << player, cpu, turn, verdict, nturns >>

\* variant: the CPU draws only among the moves that are off cooldown
take_turn_cpu_ready(k) ==
  /\ pc = "turn" /\ turn # 0
  /\ k \in Moves(cpu)
  /\ ~OnCooldown(cpu, k)
  /\ apply_move(cpu, player, k)
  /\ pc' = "reduce"
  /\ UNCHANGED << player, cpu, turn, verdict, nturns >>

\* random.choice(range(len(attacker["player_moves"])))
take_turn_cpu(k) ==
  /\ pc = "turn" /\ turn # 0
  /\ k \in Moves(cpu)
  /\ apply_move(cpu, player, k)
  /\ pc' = "reduce"
  /\ UNCHANGED << player, cpu, turn, verdict, nturns >>

(* -------------------------- reduce_cooldowns ---------------------------- *)
\* variant: a cooldown is never reduced to 0
Reduced_late(c) == IF c > 1 THEN c - 1 ELSE c

\* variant: the decrement is not guarded by cooldown > 0
Reduced_unguarded(c) == c - 1

\* variant: a positive cooldown is lowered by 2 per call
Reduced_double(c) == IF c > 1 THEN c - 2 ELSE 0

\* if cooldown > 0: cooldown -= 1
Reduced(c) == IF c > 0 THEN c - 1 ELSE c

\* variant: the turn is not handed over
NextTurn_stuck(t) == t

\* turn = 1 - turn
NextTurn(t) == 1 - t

Elapsed(s) == IF s = Never \/ s >= SinceCap THEN s ELSE s + 1

reduce_cooldowns ==
  /\ pc = "reduce"
  /\ cooldowns' = [c \in DOMAIN cooldowns |->
                     [k \in DOMAIN cooldowns[c] |-> Reduced(cooldowns[c][k])]]
  /\ since' = [c \in DOMAIN since |-> [k \in DOMAIN since[c] |-> Elapsed(since[c][k])]]
  /\ turn' = NextTurn(turn)
  /\ nturns' = IF nturns < MaxTurns THEN nturns + 1 ELSE nturns
  /\ pc' = "loop"
  /\ UNCHANGED << player, cpu, health, active_defenses, args, damage, outcome, verdict >>

(* ------------------------------- play ----------------------------------- *)
\* variant: the healths are tested only when the player is next to move
LoopCondition_pairs == turn = 1 \/ (health[player] > 0 /\ health[cpu] > 0)

\* variant: the loop goes on while either combatant is alive
LoopCondition_either == health[player] > 0 \/ health[cpu] > 0

\* while self.player["health"] > 0 and self.cpu["health"] > 0
LoopCondition == health[player] > 0 /\ health[cpu] > 0

\* variant: the comparison is reversed
Lt_reversed == health[player] > health[cpu]

\* Game.__lt__
Lt == health[player] < health[cpu]

play_continue ==
  /\ pc = "loop"
  /\ LoopCondition
  /\ pc' = "turn"
  /\ UNCHANGED << player, cpu, battle, turn, args, damage, outcome, verdict, nturns, since >>

play_exit ==
  /\ pc = "loop"
  /\ ~LoopCondition
  /\ verdict' = IF Lt THEN "lost" ELSE "won"
  /\ pc' = "done"
  /\ UNCHANGED << player, cpu, battle, turn, args, damage, outcome, nturns, since >>

Inputs == 0..MaxInput

Next ==
  \/ \E n \in Inputs : choose_character_out_of_range(n)
  \/ choose_character_not_a_number
  \/ \E n \in Inputs, r \in Chars : choose_character(n, r)
  \/ reset_cooldowns
  \/ play_continue
  \/ \E n \in Inputs : take_turn_out_of_range(n)
  \/ take_turn_not_a_number
  \/ \E n \in Inputs : take_turn_player(n)
  \/ \E k \in Inputs : take_turn_cpu(k)
  \/ reduce_cooldowns
  \/ play_exit

Spec == Init /\ [][Next]_vars

\* the program runs on: every step of play() that can be taken eventually is,
\* and a human at the move prompt eventually types a valid number
LiveSpec ==
  /\ Spec
  /\ WF_vars(reset_cooldowns)
  /\ WF_vars(play_continue)
  /\ WF_vars(play_exit)
  /\ WF_vars(\E n \in Inputs : take_turn_player(n))
  /\ WF_vars(\E k \in Inputs : take_turn_cpu(k))
  /\ WF_vars(reduce_cooldowns)

(* ======================= properties of the battle ====================== *)
\* the side whose turn it is, and the other side
Current == IF turn = 0 THEN player ELSE cpu
Other == IF turn = 0 THEN cpu ELSE player

\* a step in which the side to move selects move k and apply_move runs
TurnStep(k) == pc = "turn" /\ pc' = "reduce" /\ move_idx' = k

Configured(c, k) ==
  IF MoveOf(c, k).hasCooldown THEN MoveOf(c, k).cooldown ELSE 0

Blocking(c, k) ==
  MoveOf(c, k).effect = "blocks next attack" \/ MoveOf(c, k).effect = "dodge next attack"

(* ------------------------------- C1 ------------------------------------ *)
\* C1: an attempt to execute a move whose remaining cooldown is > 0 is
\* refused and changes no health, no defense flag (the defender's active
\* defense is not consumed) and no cooldown; the attacker is not prompted
\* again: the turn ends and passes to the other side.
C1_RefusedAttemptChangesNothing ==
  [][ /\ \A k \in 1..MaxInput :
           (TurnStep(k) /\ cooldowns[Current][k] > 0)
             => /\ outcome' = "cooldown"
                /\ health' = health
                /\ active_defenses' = active_defenses
                /\ cooldowns' = cooldowns
      /\ (pc = "reduce" /\ outcome = "cooldown")
             => (pc' = "loop" /\ turn' = 1 - turn)
      /\ (pc = "turn" /\ outcome = "cooldown") => attacker # Current
    ]_vars

\* a refused attempt against a defender whose defense is active
C1_Witness ==
  /\ pc = "reduce" /\ outcome = "cooldown"
  /\ cooldowns[attacker][move_idx] > 0
  /\ active_defenses[defender]

(* ------------------------------- C2 ------------------------------------ *)
\* C2: a plain attack executed off cooldown against an undefended defender
\* deals exactly max(move.damage - defender.defense, 0), the defender's
\* health drops by exactly that, and no step ever raises a health.
C2_DamageIsClampedDifference ==
  [][ /\ \A k \in 1..MaxInput :
           (/\ TurnStep(k)
            /\ ~(cooldowns[Current][k] > 0)
            /\ ~active_defenses[Other]
            /\ ~Blocking(Current, k))
             => LET raw == MoveOf(Current, k).damage - characters[Other].defense
                    dealt == IF raw > 0 THEN raw ELSE 0
                IN /\ outcome' = "damage"
                   /\ damage' = dealt
                   /\ health'[Other] = health[Other] - dealt
                   /\ health'[Current] = health[Current]
      /\ damage' >= 0
      /\ \A c \in Chars : health'[c] <= health[c]
    ]_vars

\* an attack weaker than the defender's defense has been executed: 0 damage
C2_Witness ==
  /\ pc = "reduce" /\ outcome = "damage"
  /\ MoveOf(attacker, move_idx).damage < characters[defender].defense
  /\ damage = 0
  /\ health[defender] = characters[defender].health

(* ------------------------------- C3 ------------------------------------ *)
\* C3 as stated: whenever a character uses a block/dodge move off cooldown,
\* its defense flag is true afterwards.
C3_BlockMoveAlwaysRaisesFlag ==
  [][ \A k \in 1..MaxInput :
        (TurnStep(k) /\ ~(cooldowns[Current][k] > 0) /\ Blocking(Current, k))
          => active_defenses'[Current]
    ]_vars

\* C3 (amended): a block/dodge move used off cooldown while the opponent's
\* flag is not set raises the actor's flag; a raised flag is lowered only by
\* the opponent's next executed (off-cooldown) move, which it nullifies, and
\* it is false right after that move.
C3_FlagRaisedThenConsumedOnce ==
  [][ /\ \A k \in 1..MaxInput :
           (/\ TurnStep(k) /\ ~(cooldowns[Current][k] > 0)
            /\ Blocking(Current, k) /\ ~active_defenses[Other])
             => active_defenses'[Current]
      /\ \A c \in DOMAIN active_defenses :
           (active_defenses[c] /\ ~active_defenses'[c])
             => /\ pc = "turn" /\ pc' = "reduce"
                /\ c = Other
                /\ ~(cooldowns[Current][move_idx'] > 0)
                /\ outcome' = "nullified"
      /\ \A k \in 1..MaxInput :
           (TurnStep(k) /\ ~(cooldowns[Current][k] > 0) /\ active_defenses[Other])
             => /\ outcome' = "nullified"
                /\ health' = health
                /\ ~active_defenses'[Other]
      /\ \A k \in 1..MaxInput :
           (TurnStep(k) /\ cooldowns[Current][k] > 0 /\ active_defenses[Other])
             => active_defenses'[Other]
    ]_vars

\* a raised flag has just nullified the opponent's move and is down again
C3_Witness ==
  /\ pc = "reduce" /\ outcome = "nullified"
  /\ ~active_defenses[defender]
  /\ \E k \in Moves(defender) : Blocking(defender, k) /\ since[defender][k] >= 0

(* ------------------------------- C4 ------------------------------------ *)
\* C4: a move executed at turn t with configured cooldown c is refused at
\* every attempt of its owner during the turns t+1 .. t+c.
C4_UnusableForCooldownTurns ==
  [][ \A k \in 1..MaxInput :
        (/\ TurnStep(k)
         /\ since[Current][k] >= 1
         /\ since[Current][k] <= Configured(Current, k))
          => outcome' = "cooldown"
    ]_vars

(* ------------------------------- C5 ------------------------------------ *)
\* character a has a move whose damage exceeds d's defense
CanHurt(a, d) ==
  \E k \in Moves(a) : MoveOf(a, k).damage > characters[d].defense

\* every move of a is a plain attack whose damage exceeds d's defense
EveryMoveHurts(a, d) ==
  \A k \in Moves(a) :
    ~Blocking(a, k) /\ MoveOf(a, k).damage > characters[d].defense

\* C5 as stated: the battle ends whenever each character has at least one
\* move whose damage exceeds the opponent's defense, whatever is chosen.
C5_EndsIfEachCanHurt ==
  (pc = "reset" /\ CanHurt(player, cpu) /\ CanHurt(cpu, player)) ~> (pc = "done")

\* C5 (amended): the battle ends, whatever is chosen, whenever every move of
\* each character is a plain attack whose damage exceeds the opponent's
\* defense.
C5_EndsIfEveryMoveHurts ==
  (pc = "reset" /\ EveryMoveHurts(player, cpu) /\ EveryMoveHurts(cpu, player))
    ~> (pc = "done")

\* such a battle has ended after at least three turns
C5_Witness ==
  /\ pc = "done"
  /\ EveryMoveHurts(player, cpu) /\ EveryMoveHurts(cpu, player)
  /\ nturns >= 3

(* ------------------------------- C6 ------------------------------------ *)
\* C6 as stated: the loop test is reached only between full turn pairs,
\* that is only when the player is the next to move.
C6_TestedOnlyBetweenPairs == pc = "loop" => turn = 0

\* C6 (amended): the terminal condition is tested after every single turn:
\* each turn is followed by the test, a turn is taken only if the test found
\* both healths > 0, and otherwise the loop exits at once.
C6_TestedAfterEveryTurn ==
  [][ /\ pc = "reduce" => pc' = "loop"
      /\ (pc # "turn" /\ pc' = "turn") => pc = "loop"
      /\ pc = "loop" =>
           IF health[player] > 0 /\ health[cpu] > 0
             THEN pc' = "turn" ELSE pc' = "done"
    ]_vars

\* the battle ended right after a player turn, the opponent did not reply
C6_Witness == pc = "done" /\ turn = 1 /\ nturns = 1 /\ health[cpu] <= 0

(* ------------------------------- C7 ------------------------------------ *)
\* C7: from two combatants with health > 0, the two healths are never both
\* <= 0, and no turn is taken once one of them is <= 0.
C7_NeverBothDown ==
  (player # NoChar /\ cpu # NoChar
   /\ characters[player].health > 0 /\ characters[cpu].health > 0)
    => /\ ~(health[player] <= 0 /\ health[cpu] <= 0)
       /\ pc = "turn" => (health[player] > 0 /\ health[cpu] > 0)
       /\ pc = "done" => (health[player] <= 0 \/ health[cpu] <= 0)

\* a battle between two healthy characters ended by a blow below zero
C7_Witness ==
  /\ pc = "done"
  /\ characters[player].health > 0 /\ characters[cpu].health > 0
  /\ health[player] < 0

(* ------------------------------- C8 ------------------------------------ *)
\* C8: at the end the player is reported as the loser exactly when the
\* player's final health is lower than the opponent's, and the reported
\* loser has health <= 0.
C8_LowerHealthLoses ==
  pc = "done" =>
    /\ verdict \in {"lost", "won"}
    /\ verdict = "lost" <=> health[player] < health[cpu]
    /\ verdict = "lost" => health[player] <= 0
    /\ verdict = "won" => health[cpu] <= 0

\* the player lost with a health that went negative on the final blow
C8_Witness == pc = "done" /\ verdict = "lost" /\ health[player] < 0

(* ------------------------------- C9 ------------------------------------ *)
\* C9: turn k is the player's when k is even and the opponent's when k is
\* odd, also after a wasted turn or a nullified attack; nobody moves twice
\* in a row.
C9_StrictAlternation ==
  [][ /\ (pc = "turn" /\ pc' = "reduce")
           => /\ attacker' # attacker
              /\ defender' # defender
              /\ nturns < MaxTurns
                   => attacker' = (IF nturns % 2 = 0 THEN player ELSE cpu)
      /\ pc = "reduce" => (turn' = 1 - turn /\ turn' \in {0, 1})
    ]_vars

\* the player's turn 2 was wasted on a cooling move and turn 3 is the opponent's
C9_Witness ==
  /\ pc = "turn" /\ nturns = 3
  /\ outcome = "cooldown" /\ attacker = player
  /\ Current = cpu

(* ------------------------------- C10 ----------------------------------- *)
\* C10: a move off cooldown against a defender whose flag is set is
\* nullified: no health changes, the defender's flag becomes false, the
\* move's cooldown is set to its configured value, and the attacker's own
\* flag is left as it was even when the move is a block/dodge move.
C10_NullifiedAttack ==
  [][ \A k \in 1..MaxInput :
        (TurnStep(k) /\ ~(cooldowns[Current][k] > 0) /\ active_defenses[Other])
          => /\ outcome' = "nullified"
             /\ health' = health
             /\ ~active_defenses'[Other]
             /\ cooldowns'[Current][k] = Configured(Current, k)
             /\ active_defenses'[Current] = active_defenses[Current]
    ]_vars

\* a block/dodge move has been nullified: its cooldown runs, no flag is set
C10_Witness ==
  /\ pc = "reduce" /\ outcome = "nullified"
  /\ Blocking(attacker, move_idx)
  /\ cooldowns[attacker][move_idx] = Configured(attacker, move_idx)
  /\ cooldowns[attacker][move_idx] > 0
  /\ ~active_defenses[attacker] /\ ~active_defenses[defender]

(* ------------------------------- C11 ----------------------------------- *)
\* every remaining cooldown lies between 0 and its move's configured value
CooldownsInRange(cd) ==
  \A c \in DOMAIN cd : \A k \in DOMAIN cd[c] :
    cd[c][k] >= 0 /\ cd[c][k] <= Configured(c, k)

\* C11: every remaining cooldown is >= 0 and <= the configured cooldown of
\* its move: all are 0 after the reset, reduce_cooldowns lowers a positive
\* cooldown by 1 and leaves a 0 at 0, and apply_move only ever sets the
\* chosen move's cooldown to its configured value.
C11_CooldownsStayInRange ==
  [][ /\ CooldownsInRange(cooldowns) /\ CooldownsInRange(cooldowns')
      /\ pc = "reset"
           => /\ DOMAIN cooldowns' = {player, cpu}
              /\ \A c \in DOMAIN cooldowns' : \A k \in DOMAIN cooldowns'[c] :
                   cooldowns'[c][k] = 0
      /\ pc = "reduce"
           => \A c \in DOMAIN cooldowns : \A k \in DOMAIN cooldowns[c] :
                /\ cooldowns[c][k] = 0 => cooldowns'[c][k] = 0
                /\ cooldowns[c][k] > 0 => cooldowns'[c][k] = cooldowns[c][k] - 1
      /\ pc = "turn"
           => \A c \in DOMAIN cooldowns : \A k \in DOMAIN cooldowns[c] :
                \/ cooldowns'[c][k] = cooldowns[c][k]
                \/ cooldowns'[c][k] = Configured(c, k)
    ]_vars

\* a cooldown that ran out at least two turns ago is still 0, not below
C11_Witness ==
  /\ pc = "loop"
  /\ \E c \in DOMAIN cooldowns : \E k \in DOMAIN cooldowns[c] :
       /\ Configured(c, k) = 3
       /\ since[c][k] = 5
       /\ cooldowns[c][k] = 0

(* ------------------------------- C12 ----------------------------------- *)
\* C12: on a computer turn every move of the computer can be drawn,
\* whatever its remaining cooldown; a drawn move that is on cooldown is
\* refused, nothing is drawn a second time and the player moves next.
C12_CpuIgnoresCooldowns ==
  [][ /\ (pc = "turn" /\ turn = 1)
           => \A k \in Moves(cpu) : ENABLED take_turn_cpu(k)
      /\ \A k \in 1..MaxInput :
           (TurnStep(k) /\ turn = 1 /\ cooldowns[cpu][k] > 0)
             => /\ attacker' = cpu
                /\ outcome' = "cooldown"
                /\ cooldowns' = cooldowns
                /\ health' = health
      /\ (pc = "reduce" /\ attacker = cpu /\ outcome = "cooldown")
           => (pc' = "loop" /\ turn' = 0)
      /\ (pc = "loop" /\ attacker = cpu /\ outcome = "cooldown")
           => (pc' = "turn" => turn' = 0)
    ]_vars

\* the computer drew a move that was on cooldown and lost its turn
C12_Witness ==
  /\ pc = "reduce" /\ attacker = cpu /\ turn = 1
  /\ outcome = "cooldown"
  /\ cooldowns[cpu][move_idx] > 0

(* ------------------------------- C13 ----------------------------------- *)
InvalidLines == {"invalid choice", "invalid input", "invalid move"}

\* C13: at the character prompt and at the move prompt a number out of
\* range or a non-number is never accepted; it only prints a complaint and
\* prompts again: healths, cooldowns, defense flags, the selected
\* characters and the side to move are unchanged and the turn is not
\* consumed; only a valid selection leaves the prompt.
C13_InvalidInputOnlyReprompts ==
  [][ /\ pc = "choose"
           => /\ ENABLED choose_character_not_a_number
              /\ \A n \in Inputs :
                   IF 1 <= n /\ n <= NumChars
                     THEN /\ ENABLED (\E r \in Chars : choose_character(n, r))
                          /\ ~ENABLED choose_character_out_of_range(n)
                     ELSE /\ ~ENABLED (\E r \in Chars : choose_character(n, r))
                          /\ ENABLED choose_character_out_of_range(n)
      /\ (pc = "turn" /\ turn = 0)
           => /\ ENABLED take_turn_not_a_number
              /\ \A n \in Inputs :
                   IF 1 <= n /\ n <= Len(characters[player].player_moves)
                     THEN /\ ENABLED take_turn_player(n)
                          /\ ~ENABLED take_turn_out_of_range(n)
                     ELSE /\ ~ENABLED take_turn_player(n)
                          /\ ENABLED take_turn_out_of_range(n)
      /\ (pc \in {"choose", "turn"} /\ pc' = pc)
           => /\ outcome' \in InvalidLines
              /\ UNCHANGED << health, cooldowns, active_defenses, player, cpu,
                              turn, nturns, since, attacker, defender,
                              move_idx, damage, verdict >>
    ]_vars

\* in mid-battle the player typed an invalid move number and is prompted again
C13_Witness ==
  /\ pc = "turn" /\ turn = 0 /\ nturns = 2
  /\ outcome = "invalid move"
  /\ \E k \in Moves(player) : cooldowns[player][k] > 0
  /\ health[player] < characters[player].health

(* ------------------------------- C14 ----------------------------------- *)
\* C14: once the characters are selected the opponent is one of the
\* characters other than the player's, never the player's own, and for
\* every pick of the player each of the other characters can be drawn.
C14_OpponentIsAnotherCharacter ==
  /\ pc = "choose"
       => \A n \in Chars : \A r \in Chars :
            (ENABLED choose_character(n, r)) <=> (r # n)
  /\ pc # "choose"
       => /\ player \in Chars /\ cpu \in Chars
          /\ cpu # player

\* the player picked the second character, the last one was drawn against it
C14_Witness == pc = "reset" /\ player = 2 /\ cpu = NumChars

(* ------------------------------- C15 ----------------------------------- *)
\* C15: reduce_cooldowns runs exactly once after every turn, wasted or
\* not, and lowers every positive cooldown of both characters by exactly
\* 1; so a move executed with configured cooldown c has max(c - 2, 0)
\* turns left when its owner is next to move.
C15_ReducedOncePerTurn ==
  [][ /\ pc = "turn" => pc' \in {"turn", "reduce"}
      /\ pc' = "reduce" => pc = "turn"
      /\ pc = "reduce"
           => /\ pc' = "loop"
              /\ DOMAIN cooldowns' = {player, cpu}
              /\ \A c \in {player, cpu} : \A k \in Moves(c) :
                   cooldowns'[c][k] =
                     IF cooldowns[c][k] > 0 THEN cooldowns[c][k] - 1
                                            ELSE cooldowns[c][k]
      /\ pc \in {"loop", "done"} => cooldowns' = cooldowns
      /\ \A k \in 1..MaxInput :
           (TurnStep(k) /\ outcome' # "cooldown")
             => cooldowns'[Current][k] = Configured(Current, k)
      /\ pc = "turn"
           => \A k \in Moves(Current) :
                since[Current][k] = 2
                  => cooldowns[Current][k] =
                       (IF Configured(Current, k) > 2
                          THEN Configured(Current, k) - 2 ELSE 0)
    ]_vars

\* two turns after executing a move with cooldown 4 its owner finds 2 left
C15_Witness ==
  /\ pc = "turn"
  /\ \E k \in Moves(Current) :
       /\ since[Current][k] = 2
       /\ Configured(Current, k) = 4
       /\ cooldowns[Current][k] = 2

(* ------------------------------- C16 ----------------------------------- *)
\* C16: the two defense flags are never both true: a flag is raised only
\* by its owner's block/dodge move executed while the opponent's flag is
\* false, and a move executed against a raised flag lowers that flag and
\* raises none.
C16_AtMostOneFlag ==
  [][ /\ \A c \in DOMAIN active_defenses : \A e \in DOMAIN active_defenses :
           (c # e) => ~(active_defenses[c] /\ active_defenses[e])
      /\ \A c \in DOMAIN active_defenses' : \A e \in DOMAIN active_defenses' :
           (c # e) => ~(active_defenses'[c] /\ active_defenses'[e])
      /\ \A c \in DOMAIN active_defenses :
           (~active_defenses[c] /\ active_defenses'[c])
             => /\ pc = "turn" /\ pc' = "reduce"
                /\ c = Current
                /\ Blocking(c, move_idx')
                /\ ~(cooldowns[c][move_idx'] > 0)
                /\ ~active_defenses[Other]
      /\ \A k \in 1..MaxInput :
           (TurnStep(k) /\ ~(cooldowns[Current][k] > 0) /\ active_defenses[Other])
             => /\ ~active_defenses'[Other]
                /\ ~active_defenses'[Current]
    ]_vars

\* a character whose own block was consumed earlier has been answered by
\* the opponent's block: one flag up, the other down
C16_Witness ==
  /\ pc = "reduce" /\ outcome = "defense"
  /\ active_defenses[attacker] /\ ~active_defenses[defender]
  /\ \E k \in Moves(defender) : Blocking(defender, k) /\ since[defender][k] >= 0

(* ------------------------------- C17 ----------------------------------- *)
\* C17: apply_move never changes the attacker's own health, a cooldown of
\* the defender, the cooldown of an attacker move other than the chosen
\* one, or the health of a character outside the battle; a block/dodge
\* move and a nullified attack change no health at all.  (No statement of
\* the program assigns a defense value: it is the constant of the data.)
C17_ApplyMoveFrame ==
  [][ \A k \in 1..MaxInput :
        TurnStep(k)
          => /\ health'[Current] = health[Current]
             /\ \A c \in Chars \ {Other} : health'[c] = health[c]
             /\ cooldowns'[Other] = cooldowns[Other]
             /\ \A j \in Moves(Current) :
                  (j # k) => cooldowns'[Current][j] = cooldowns[Current][j]
             /\ DOMAIN cooldowns' = DOMAIN cooldowns
             /\ (outcome' \in {"defense", "nullified", "cooldown"})
                  => health' = health
             /\ (~(cooldowns[Current][k] > 0)
                 /\ (active_defenses[Other] \/ Blocking(Current, k)))
                  => health' = health
    ]_vars

\* a damaging attack with a cooldown was executed while another move of the
\* attacker and a move of the defender were cooling down
C17_Witness ==
  /\ pc = "reduce" /\ outcome = "damage" /\ damage > 0
  /\ cooldowns[attacker][move_idx] > 0
  /\ \E j \in Moves(attacker) :
       j # move_idx /\ cooldowns[attacker][j] > 0 /\ since[attacker][j] = 2
  /\ \E j \in Moves(defender) : cooldowns[defender][j] > 0

====
